---------------------------- MODULE Spec2Model ----------------------------
(***************************************************************************)
(* Model of the evolution simulation: State::new (world construction),     *)
(* State::update (the tick driver) and the Vehicle operations behaviors    *)
(* and update that the driver calls.                                       *)
(*                                                                         *)
(* Arithmetic is fixed point.  One model unit is a quarter of a world      *)
(* unit, so 0.5 is 2, 1.0 is 4, 50.0 is 200.  Every rescaling of a vector  *)
(* (normalize, clamp) rounds each component toward zero.  Distances are    *)
(* compared by their squares, which is exact.                              *)
(*                                                                         *)
(* The heading angle, colours, the sprite and the frame clock take no part *)
(* in the simulation step and are left out.                                *)
(***************************************************************************)
EXTENDS Integers, Sequences, FiniteSets

VARIABLES phase, config, vehicles, food, poison, spawned, ticks, log

vars == <<phase, config, vehicles, food, poison, spawned, ticks, log>>

\* Number of iterations of the update loop that are explored.
MaxTicks == 20

\* "No value": no steering contribution, no target.
None == <<>>

---------------------------------------------------------------------------
(* Vectors *)

Abs(x) == IF x < 0 THEN -x ELSE x

Sgn(x) == IF x < 0 THEN -1 ELSE IF x > 0 THEN 1 ELSE 0

Add(a, b) == <<a[1] + b[1], a[2] + b[2]>>

Sub(a, b) == <<a[1] - b[1], a[2] - b[2]>>

Scale(a, k) == <<a[1] * k, a[2] * k>>

Dot(a, b) == a[1] * b[1] + a[2] * b[2]

\* Squared magnitude.
Norm2(a) == Dot(a, a)

\* Squared distance between two points.
Dist2(a, b) == Norm2(Sub(a, b))

\* Largest r in 0..hi with r*r <= n (n <= hi*hi).
ISqrt(n, hi) == CHOOSE r \in 0..hi : r * r <= n /\ (r = hi \/ (r + 1) * (r + 1) > n)

\* One component of a vector a rescaled to magnitude m: x * m / |a|,
\* rounded toward zero.
SetMagComponent(x, n2, m) == Sgn(x) * ISqrt((x * x * m * m) \div n2, m)

\* a rescaled to magnitude m (normalize(a) * m); the zero vector stays zero.
SetMag(a, m) ==
    IF Norm2(a) = 0 THEN <<0, 0>>
    ELSE <<SetMagComponent(a[1], Norm2(a), m), SetMagComponent(a[2], Norm2(a), m)>>

\* Clamp by magnitude: a when |a| <= m, else a rescaled to m.
Limit(a, m) == IF Norm2(a) > m * m THEN SetMag(a, m) ELSE a

---------------------------------------------------------------------------
(* Vehicle (evolution::vehicle) and Food (evolution::food) *)

\* A stimulus.  id is its place in its collection at creation; it stands
\* for the identity of the object and is never read by the simulation.
FoodNew(id, size, pos) == [id |-> id, size |-> size, pos |-> pos]

\* Vehicle::new: a vehicle at rest.  id is its place in the collection.
VehicleNew(id, size, max_speed, max_steering_force, pos, dna) ==
    [id |-> id, size |-> size, max_speed |-> max_speed,
     max_steering_force |-> max_steering_force, pos |-> pos,
     vel |-> <<0, 0>>, acc |-> <<0, 0>>, dna |-> dna]

\* Index of the stimulus nearest to pos, the earliest one on a tie; 0 for
\* an empty collection.
NearestIndex(pos, coll) ==
    IF Len(coll) = 0 THEN 0
    ELSE CHOOSE i \in 1..Len(coll) :
            \A j \in 1..Len(coll) :
                \/ Dist2(pos, coll[j].pos) > Dist2(pos, coll[i].pos)
                \/ (Dist2(pos, coll[j].pos) = Dist2(pos, coll[i].pos) /\ j >= i)

\* Contact: distance <= v.size / 2 + s.size / 2.
InContactAt(pos, size, s) == 4 * Dist2(pos, s.pos) <= (size + s.size) * (size + s.size)

InContact(v, s) == InContactAt(v.pos, v.size, s)

\* distance <= radius.
Perceived(v, s, radius) == radius >= 0 /\ Dist2(v.pos, s.pos) <= radius * radius

\* The collection without its element i; the order of the rest is kept.
Remove(coll, i) == SubSeq(coll, 1, i - 1) \o SubSeq(coll, i + 1, Len(coll))

SeekNoClamp(v, target) == Sub(SetMag(Sub(target, v.pos), v.max_speed), v.vel)

\* The steering vector toward target: desired - velocity, clamped to
\* max_steering_force.
Seek(v, target) ==
    Limit(Sub(SetMag(Sub(target, v.pos), v.max_speed), v.vel), v.max_steering_force)

WeightedUnsigned(steer, w) == Scale(steer, Abs(w))

\* The steering vector multiplied by the gene weight.
Weighted(steer, w) == Scale(steer, w)

\* The result of one class of behaviors: acc is the vehicle's acceleration
\* afterwards, coll the collection afterwards, target the id of the nearest
\* stimulus found by the scan (0: none), eaten the id of the consumed one
\* (0: none), steer the clamped steering vector and force the contribution
\* added to acc.
NoSteer(v, coll, target) ==
    [acc |-> v.acc, coll |-> coll, target |-> target, eaten |-> 0,
     steer |-> None, force |-> None]

\* Contact: the stimulus at index i is removed, nothing is added to acc.
Consume(v, coll, i) ==
    [acc |-> v.acc, coll |-> Remove(coll, i), target |-> coll[i].id,
     eaten |-> coll[i].id, steer |-> None, force |-> None]

\* Perceived: the weighted steering vector is added to acc.
Steer(v, coll, target, st, f) ==
    [acc |-> Add(v.acc, f), coll |-> coll, target |-> target, eaten |-> 0,
     steer |-> st, force |-> f]

SteerToward(v, coll, s, st, w) == Steer(v, coll, s.id, st, Weighted(st, w))

\* Consumption check, else perception check, for the nearest stimulus i.
ApplyAt(v, coll, w, radius, i) ==
    IF i = 0 THEN NoSteer(v, coll, 0)
    ELSE IF InContact(v, coll[i]) THEN Consume(v, coll, i)
    ELSE IF Perceived(v, coll[i], radius)
    THEN SteerToward(v, coll, coll[i], Seek(v, coll[i].pos), w)
    ELSE NoSteer(v, coll, coll[i].id)

\* One class of behaviors: nearest-target search, then ApplyAt.
ApplyClass(v, coll, w, radius) == ApplyAt(v, coll, w, radius, NearestIndex(v.pos, coll))

WithAcc(v, acc) == [v EXCEPT !.acc = acc]

BehaviorsResult(v, f, p) ==
    [veh |-> WithAcc(v, p.acc), food |-> f.coll, poison |-> p.coll, f |-> f, p |-> p]

\* The poison class, after the food class gave f.
BehaviorsPoison(v, ps, perception, f) ==
    BehaviorsResult(v, f,
        ApplyClass(WithAcc(v, f.acc), ps, v.dna[2], perception.poison))

\* Vehicle::behaviors(food, poison): food first, then poison.
Behaviors(v, fd, ps, perception) ==
    BehaviorsPoison(v, ps, perception, ApplyClass(v, fd, v.dna[1], perception.food))

Moved(v, vel) == [v EXCEPT !.vel = vel, !.pos = Add(v.pos, vel), !.acc = <<0, 0>>]

UpdateNoClamp(v) == Moved(v, Add(v.vel, v.acc))

\* Vehicle::update(): one Euler step, the velocity clamped to max_speed.
Update(v) == Moved(v, Limit(Add(v.vel, v.acc), v.max_speed))

---------------------------------------------------------------------------
(* State::update: the tick driver *)

\* What one vehicle's turn did: the vehicle before behaviors (pre) and
\* after it (mid), the collections before and after, and per class the
\* target, the consumed stimulus and the steering.
Entry(pre, mid, fd, ps, fdAfter, psAfter, f, p) ==
    [pre |-> pre, mid |-> mid,
     foodBefore |-> fd, poisonBefore |-> ps,
     foodAfter |-> fdAfter, poisonAfter |-> psAfter,
     targetFood |-> f.target, eatenFood |-> f.eaten,
     steerFood |-> f.steer, forceFood |-> f.force,
     targetPoison |-> p.target, eatenPoison |-> p.eaten,
     steerPoison |-> p.steer, forcePoison |-> p.force]

\* The turn whose behaviors gave b, with the vehicle veh it ends with.
TurnResult(v, fd, ps, b, veh, fdAfter) ==
    [veh |-> veh, food |-> fdAfter, poison |-> b.poison,
     entry |-> Entry(v, b.veh, fd, ps, fdAfter, b.poison, b.f, b.p)]

VehicleTurnTwice(v, fd, ps, perception) ==
    LET b == Behaviors(v, fd, ps, perception)
        c == Behaviors(b.veh, b.food, b.poison, perception)
    IN  TurnResult(v, fd, ps, [c EXCEPT !.f = b.f, !.p = b.p], Update(c.veh), c.food)

VehicleTurnUpdateFirst(v, fd, ps, perception) ==
    LET b == Behaviors(Update(v), fd, ps, perception)
    IN  TurnResult(v, fd, ps, b, b.veh, b.food)

VehicleTurnReplenish(v, fd, ps, perception) ==
    LET b == Behaviors(v, fd, ps, perception)
    IN  TurnResult(v, fd, ps, b, Update(b.veh), Append(b.food, FoodNew(0, 0, v.pos)))

Turn(v, fd, ps, b) == TurnResult(v, fd, ps, b, Update(b.veh), b.food)

\* The body of the for loop: vehicle.behaviors(food, poison), then
\* vehicle.update().
VehicleTurn(v, fd, ps, perception) == Turn(v, fd, ps, Behaviors(v, fd, ps, perception))

\* The result of the loop when no vehicle is left.
LoopEnd(fd, ps) == [vehicles |-> <<>>, food |-> fd, poison |-> ps, log |-> <<>>]

\* The result of the loop from the first turn t and the rest of the loop.
LoopStep(t, rest) ==
    [vehicles |-> <<t.veh>> \o rest.vehicles, food |-> rest.food,
     poison |-> rest.poison, log |-> <<t.entry>> \o rest.log]

RECURSIVE RunVehiclesSnapshot(_, _, _, _)
RunVehiclesSnapshot(vs, fd, ps, perception) ==
    IF vs = <<>> THEN LoopEnd(fd, ps)
    ELSE LET t == VehicleTurn(Head(vs), fd, ps, perception)
             rest == RunVehiclesSnapshot(Tail(vs), fd, ps, perception)
         IN  IF Tail(vs) = <<>> THEN LoopStep(t, LoopEnd(t.food, t.poison))
             ELSE LoopStep(t, rest)

RECURSIVE RunVehicles(_, _, _, _)
RECURSIVE RunFrom(_, _, _)

\* The rest of the loop after the first vehicle's turn t: on the
\* collections that turn left.
RunFrom(vs, perception, t) ==
    LoopStep(t, RunVehicles(Tail(vs), t.food, t.poison, perception))

\* The for loop over the vehicles, in collection order.
RunVehicles(vs, fd, ps, perception) ==
    IF vs = <<>> THEN LoopEnd(fd, ps)
    ELSE RunFrom(vs, perception, VehicleTurn(Head(vs), fd, ps, perception))

---------------------------------------------------------------------------
(* State::new: world construction *)

\* map_range(value, range1, range2); the quotient is rounded down.
MapRange(value, range1, range2) ==
    range2[1] + ((range2[2] - range2[1]) * (value - range1[1])) \div (range1[2] - range1[1])

\* Number of iterations of `for _ in 1..quantity`.
SpawnCount(quantity) == IF quantity >= 1 THEN quantity - 1 ELSE 0

\* rng.gen_range(low, high) panics when low >= high.
GenRangePanics(range) == range[1] >= range[2]

\* The samples rng.gen_range(low, high) is drawn from: every value of the
\* half-open range (used for sizes).
GenRange(range) == range[1]..(range[2] - 1)

\* Sampled coordinates and gene pairs: the draws of rng.gen_range(0.0, w),
\* rng.gen_range(0.0, h) and of the two rng.gen_range(-5.0, 5.0).
XSamples == {200, 203, 240}

YSamples == {200, 204}

DnaSamples == {<<1, 0>>, <<-1, 0>>, <<4, 0>>, <<4, -5>>, <<-5, 4>>, <<0, 0>>}

GenPos(window_size) ==
    {<<x, y>> : x \in {c \in XSamples : c < window_size[1]},
                y \in {c \in YSamples : c < window_size[2]}}

\* The vehicles one run of the first loop can push.
SpawnVehicles(cfg) ==
    LET n == SpawnCount(cfg.vehicle.quantity)
        one == {<<size, pos, dna>> : size \in GenRange(cfg.vehicle.size_range),
                                     pos \in GenPos(cfg.window_size),
                                     dna \in DnaSamples}
    IN  {[i \in 1..n |->
            VehicleNew(i, d[i][1],
                MapRange(d[i][1], cfg.vehicle.size_range, cfg.vehicle.max_speed_range),
                MapRange(d[i][1], cfg.vehicle.size_range,
                         cfg.vehicle.max_steering_force_range),
                d[i][2], d[i][3])] : d \in [1..n -> one]}

\* The stimuli one run of the food loop (or the poison loop) can push.
SpawnFood(kind, window_size) ==
    LET n == SpawnCount(kind.quantity)
        one == {<<size, pos>> : size \in GenRange(kind.size_range),
                                pos \in GenPos(window_size)}
    IN  {[i \in 1..n |-> FoodNew(i, d[i][1], d[i][2])] : d \in [1..n -> one]}

\* A loop that runs at least once over an empty or inverted size_range
\* panics in gen_range.
NewPanics(cfg) ==
    \/ SpawnCount(cfg.vehicle.quantity) >= 1 /\ GenRangePanics(cfg.vehicle.size_range)
    \/ SpawnCount(cfg.food.quantity) >= 1 /\ GenRangePanics(cfg.food.size_range)
    \/ SpawnCount(cfg.poison.quantity) >= 1 /\ GenRangePanics(cfg.poison.size_range)

\* The configurations explored.  The perception radii are the configuration
\* fields vehicle.perception.food and vehicle.perception.poison that
\* behaviors reads.  ConfigS1 is scenario S1 (max_speed 1,
\* max_steering_force 0.5, food perception 1000, sizes 0).
ConfigS1 ==
    [window_size |-> <<400, 400>>,
     vehicle |-> [quantity |-> 2, size_range |-> <<0, 1>>,
                  max_speed_range |-> <<4, 8>>,
                  max_steering_force_range |-> <<2, 4>>,
                  perception |-> [food |-> 4000, poison |-> 4000]],
     food |-> [quantity |-> 2, size_range |-> <<0, 1>>],
     poison |-> [quantity |-> 1, size_range |-> <<0, 1>>]]

\* Two vehicles, one food, one poison, close together.
ConfigPair ==
    [window_size |-> <<204, 205>>,
     vehicle |-> [quantity |-> 3, size_range |-> <<4, 5>>,
                  max_speed_range |-> <<4, 8>>,
                  max_steering_force_range |-> <<2, 4>>,
                  perception |-> [food |-> 100, poison |-> 100]],
     food |-> [quantity |-> 2, size_range |-> <<0, 1>>],
     poison |-> [quantity |-> 2, size_range |-> <<2, 3>>]]

\* One vehicle of two possible sizes, two foods, one poison, a short poison
\* perception radius.
ConfigMixed ==
    [window_size |-> <<201, 205>>,
     vehicle |-> [quantity |-> 2, size_range |-> <<2, 4>>,
                  max_speed_range |-> <<4, 8>>,
                  max_steering_force_range |-> <<2, 4>>,
                  perception |-> [food |-> 100, poison |-> 5]],
     food |-> [quantity |-> 3, size_range |-> <<1, 2>>],
     poison |-> [quantity |-> 2, size_range |-> <<1, 2>>]]

\* quantity 0 and 1, and an empty size_range that no loop reads.
ConfigEmpty ==
    [ConfigS1 EXCEPT !.vehicle.quantity = 0, !.food.quantity = 1,
                     !.food.size_range = <<2, 2>>, !.poison.quantity = 0]

\* An inverted vehicle size_range, read by the first loop.
ConfigInverted == [ConfigPair EXCEPT !.vehicle.size_range = <<5, 4>>]

\* A negative perception radius.
ConfigNegative ==
    [ConfigS1 EXCEPT !.window_size = <<201, 201>>, !.poison.quantity = 2,
                     !.vehicle.perception = [food |-> -1, poison |-> -1]]

Configs ==
    {ConfigS1, ConfigPair, ConfigMixed, ConfigEmpty, ConfigInverted, ConfigNegative}

---------------------------------------------------------------------------
(* The state machine *)

Init ==
    /\ phase = "config"
    /\ config \in Configs
    /\ vehicles = <<>>
    /\ food = <<>>
    /\ poison = <<>>
    /\ spawned = [vehicles |-> <<>>, food |-> <<>>, poison |-> <<>>]
    /\ ticks = 0
    /\ log = <<>>

\* State::new(ctx, config): panics in gen_range, or returns Ok(State).
New ==
    /\ phase = "config"
    /\ \/ /\ NewPanics(config)
          /\ phase' = "panicked"
          /\ UNCHANGED <<vehicles, food, poison, spawned>>
       \/ /\ ~NewPanics(config)
          /\ \E vs \in SpawnVehicles(config),
                fs \in SpawnFood(config.food, config.window_size),
                ps \in SpawnFood(config.poison, config.window_size) :
                /\ vehicles' = vs
                /\ food' = fs
                /\ poison' = ps
                /\ spawned' = [vehicles |-> vs, food |-> fs, poison |-> ps]
          /\ phase' = "running"
    /\ UNCHANGED <<config, ticks, log>>

\* The state after the loop gave r.
Store(r) ==
    /\ vehicles' = r.vehicles
    /\ food' = r.food
    /\ poison' = r.poison
    /\ log' = r.log

\* One iteration of the while loop of State::update: every vehicle's turn.
Tick ==
    /\ phase = "running"
    /\ ticks < MaxTicks
    /\ Store(RunVehicles(vehicles, food, poison, config.vehicle.perception))
    /\ ticks' = ticks + 1
    /\ UNCHANGED <<phase, config, spawned>>

Next == New \/ Tick

Spec == Init /\ [][Next]_vars

---------------------------------------------------------------------------
(* Properties *)

Running == phase = "running"

\* At least one tick has run on a world that has vehicles.
Ticked == Running /\ ticks >= 1 /\ Len(log) >= 1

\* The turns of the last tick in which the vehicle, where it stood when its
\* behaviors ran, was within contact distance of stimulus s.
TurnsInContact(s) == {k \in 1..Len(log) : InContact(log[k].pre, s)}

\* C1: within a tick the vehicles take their turns one at a time in
\* collection order, each turn being behaviors then update, and each turn
\* sees the collections as the turn before it left them.  When the tick
\* starts with a single food item and two or more vehicles are within
\* contact distance of it, the food collection ends one element shorter,
\* the first of those vehicles consumed it and got no food steering, and no
\* other vehicle consumed anything from the food collection.
C1_SerializedTurns ==
    (Running /\ ticks >= 1) =>
        /\ Len(log) = Len(vehicles)
        /\ \A k \in 1..Len(log) :
              /\ log[k].pre.id = spawned.vehicles[k].id
              /\ vehicles[k] = Update(log[k].mid)
              /\ k > 1 => /\ log[k].foodBefore = log[k - 1].foodAfter
                          /\ log[k].poisonBefore = log[k - 1].poisonAfter
        /\ Len(log) >= 1 => /\ food = log[Len(log)].foodAfter
                            /\ poison = log[Len(log)].poisonAfter
        /\ (/\ Len(log) >= 2
            /\ Len(log[1].foodBefore) = 1
            /\ Cardinality(TurnsInContact(log[1].foodBefore[1])) >= 2) =>
              LET s == log[1].foodBefore[1]
                  first == CHOOSE i \in TurnsInContact(s) :
                              \A j \in TurnsInContact(s) : i <= j
              IN  /\ Len(food) = Len(log[1].foodBefore) - 1
                  /\ log[first].eatenFood = s.id
                  /\ log[first].forceFood = None
                  /\ \A j \in 1..Len(log) : j # first => log[j].eatenFood = 0

\* Two vehicles were within contact distance of the single food item and the
\* first one consumed it.
C1_Witness ==
    /\ Ticked
    /\ Len(log) = 2
    /\ Len(log[1].foodBefore) = 1
    /\ TurnsInContact(log[1].foodBefore[1]) = {1, 2}
    /\ log[1].eatenFood = log[1].foodBefore[1].id
    /\ food = <<>>

\* C2: State::new creates exactly `quantity` vehicles, food and poison.
C2_ExactQuantity ==
    (Running /\ ticks = 0) =>
        /\ Len(vehicles) = config.vehicle.quantity
        /\ Len(food) = config.food.quantity
        /\ Len(poison) = config.poison.quantity

\* The construction invariants of a configuration: every size_range is
\* nonempty and no perception radius is negative.
ValidConfig(cfg) ==
    /\ cfg.vehicle.size_range[1] < cfg.vehicle.size_range[2]
    /\ cfg.food.size_range[1] < cfg.food.size_range[2]
    /\ cfg.poison.size_range[1] < cfg.poison.size_range[2]
    /\ cfg.vehicle.perception.food >= 0
    /\ cfg.vehicle.perception.poison >= 0

\* C3: a configuration that violates a construction invariant is rejected
\* by State::new with an error: no State is created from it, and
\* construction does not panic either.
C3_InvalidConfigRejected ==
    ~ValidConfig(config) => phase \notin {"running", "panicked"}

\* C4: no tick makes the food or the poison collection longer.
C4_StimuliNeverIncrease ==
    [][Running => (Len(food') <= Len(food) /\ Len(poison') <= Len(poison))]_vars

\* A tick that consumed a food and a poison.
C4_Witness ==
    /\ Ticked
    /\ Len(food) < Len(log[1].foodBefore)
    /\ Len(poison) < Len(log[1].poisonBefore)

\* C5: after every update the velocity's magnitude is at most max_speed.
C5_SpeedBounded ==
    Running => \A k \in 1..Len(vehicles) :
        Norm2(vehicles[k].vel) <= vehicles[k].max_speed * vehicles[k].max_speed

\* A vehicle that got steering from food and from poison, with a gene weight
\* of magnitude 5, and whose velocity plus acceleration exceeded max_speed
\* before update clamped it.
C5_Witness ==
    /\ Ticked
    /\ \E k \in 1..Len(log) :
          /\ log[k].forceFood # None
          /\ log[k].forcePoison # None
          /\ Abs(log[k].pre.dna[2]) = 5
          /\ Norm2(Add(log[k].pre.vel, log[k].mid.acc))
                > log[k].pre.max_speed * log[k].pre.max_speed

\* Scenario S1: the world State::new built from ConfigS1 with the vehicle at
\* (50, 50), dna (1, 0), and the food at (60, 50).
ScenarioS1 ==
    /\ Running
    /\ config = ConfigS1
    /\ spawned.vehicles[1].pos = <<200, 200>>
    /\ spawned.vehicles[1].dna = <<1, 0>>
    /\ spawned.food[1].pos = <<240, 200>>

\* C6 as claimed: in S1 the velocity after the first tick is (0.5, 0) and
\* after 20 ticks the food is consumed, the food collection empty.
C6_S1FoodConsumed ==
    ScenarioS1 =>
        /\ ticks = 1 => vehicles[1].vel = <<2, 0>>
        /\ ticks >= 20 => food = <<>>

\* The offsets from the food (x - 60) and the velocities the vehicle of S1
\* cycles through, with period 8, from the eleventh tick on.
S1Orbit ==
    {<<2, 4>>, <<4, 2>>, <<4, 0>>, <<2, -2>>, <<-2, -4>>, <<-4, -2>>, <<-4, 0>>, <<-2, 2>>}

\* C6 as amended: in S1 the velocity after the first tick is (0.5, 0), and
\* the food is never consumed: the vehicle reaches full speed, steps over
\* the food from 59.5 to 60.5 on the eleventh tick and from then on swings
\* between 59 and 61 without ever standing on the food, so the food
\* collection keeps its one element after 20 ticks and after any later one.
C6_S1FoodNeverConsumed ==
    ScenarioS1 =>
        /\ ticks = 1 => vehicles[1].vel = <<2, 0>>
        /\ Len(food) = 1
        /\ vehicles[1].pos # food[1].pos
        /\ ticks >= 11 =>
              /\ <<vehicles[1].pos[1] - 240, vehicles[1].vel[1]>> \in S1Orbit
              /\ vehicles[1].pos[2] = 200
              /\ vehicles[1].vel[2] = 0

\* S1 after 20 ticks, the food still there.
C6_Witness == ScenarioS1 /\ ticks >= 20 /\ Len(food) = 1

\* Stimulus s was the nearest of its class when the scan found target.
WasTarget(s, target) == target = s.id

\* C7 as claimed: after a tick, a stimulus that a vehicle now overlaps
\* (distance < V.size/2 + S.size/2 at the end of the tick) is gone from its
\* collection unless it was not the nearest of its class to that vehicle
\* when the vehicle ran behaviors.
C7_NoOverlapAfterTick ==
    Ticked => \A k \in 1..Len(log) :
        /\ \A i \in 1..Len(food) :
              4 * Dist2(vehicles[k].pos, food[i].pos)
                    < (vehicles[k].size + food[i].size) * (vehicles[k].size + food[i].size)
                 => ~WasTarget(food[i], log[k].targetFood)
        /\ \A i \in 1..Len(poison) :
              4 * Dist2(vehicles[k].pos, poison[i].pos)
                    < (vehicles[k].size + poison[i].size) * (vehicles[k].size + poison[i].size)
                 => ~WasTarget(poison[i], log[k].targetPoison)

\* C7 as amended: after a tick, a stimulus still in its collection that was
\* within contact distance (distance <= V.size/2 + S.size/2) of the place
\* where vehicle V stood when it ran behaviors, before its update moved it,
\* was not the nearest of its class to V at that moment.
C7_NoContactAtBehaviors ==
    Ticked => \A k \in 1..Len(log) :
        /\ \A i \in 1..Len(food) :
              InContact(log[k].pre, food[i]) => ~WasTarget(food[i], log[k].targetFood)
        /\ \A i \in 1..Len(poison) :
              InContact(log[k].pre, poison[i])
                 => ~WasTarget(poison[i], log[k].targetPoison)

\* A vehicle whose update moved it onto the food it was steering to: the
\* food is still there, and it was out of contact when behaviors ran.
C7_Witness ==
    /\ Ticked
    /\ \E k \in 1..Len(log) : \E i \in 1..Len(food) :
          /\ log[k].targetFood = food[i].id
          /\ log[k].forceFood # None
          /\ ~InContact(log[k].pre, food[i])
          /\ InContact(vehicles[k], food[i])

\* The magnitude of contribution f is at most bound.
Within(f, bound) == f # None => Norm2(f) <= bound * bound

\* C8 as claimed: every contribution added to the acceleration, after the
\* multiplication by the gene weight, has magnitude <= max_steering_force.
C8_ForceBounded ==
    Ticked => \A k \in 1..Len(log) :
        /\ Within(log[k].forceFood, log[k].pre.max_steering_force)
        /\ Within(log[k].forcePoison, log[k].pre.max_steering_force)

\* C8 as amended: the steering vector has magnitude <= max_steering_force
\* before the multiplication by the gene weight w_C; the contribution
\* added to the acceleration has magnitude <= |w_C| * max_steering_force.
C8_ForceBoundedByWeight ==
    Ticked => \A k \in 1..Len(log) :
        /\ Within(log[k].steerFood, log[k].pre.max_steering_force)
        /\ Within(log[k].steerPoison, log[k].pre.max_steering_force)
        /\ Within(log[k].forceFood, log[k].pre.dna[1] * log[k].pre.max_steering_force)
        /\ Within(log[k].forcePoison, log[k].pre.dna[2] * log[k].pre.max_steering_force)

\* A clamped steering vector whose weighted contribution is larger than
\* max_steering_force.
C8_Witness ==
    /\ Ticked
    /\ \E k \in 1..Len(log) :
          /\ log[k].forcePoison # None
          /\ Norm2(log[k].steerPoison)
                = log[k].pre.max_steering_force * log[k].pre.max_steering_force
          /\ Norm2(log[k].forcePoison)
                > log[k].pre.max_steering_force * log[k].pre.max_steering_force

\* Turn k of the last tick is a case of C9: the vehicle has dna (w, 0) with
\* w # 0 and saw a single food, away from its own position and nearer than
\* the food perception radius.
SingleFoodCase(k) ==
    /\ Len(log[k].foodBefore) = 1
    /\ log[k].pre.dna[1] # 0
    /\ log[k].pre.dna[2] = 0
    /\ log[k].foodBefore[1].pos # log[k].pre.pos
    /\ config.vehicle.perception.food >= 0
    /\ Dist2(log[k].pre.pos, log[k].foodBefore[1].pos)
          < config.vehicle.perception.food * config.vehicle.perception.food

\* The direction from the vehicle of turn k to the food it saw.
ToFood(k) == Sub(log[k].foodBefore[1].pos, log[k].pre.pos)

\* The velocity's component along the food direction grew (w > 0) or shrank
\* (w < 0) over turn k; both sides are scaled by the distance to the food.
ComponentMoved(k) ==
    /\ log[k].pre.dna[1] > 0 =>
          Dot(vehicles[k].vel, ToFood(k)) > Dot(log[k].pre.vel, ToFood(k))
    /\ log[k].pre.dna[1] < 0 =>
          Dot(vehicles[k].vel, ToFood(k)) < Dot(log[k].pre.vel, ToFood(k))

\* The food of turn k lies straight along an axis from the vehicle and the
\* vehicle moves along that axis: every rescaling of the turn is exact.
AlongAxis(k) ==
    \E a \in {1, 2} : ToFood(k)[a] = 0 /\ log[k].pre.vel[a] = 0

AsCreated(coll, created) ==
    \A i \in 1..Len(coll) : \E j \in 1..Len(created) : created[j] = coll[i]

\* C10: ticks neither add, destroy nor reorder vehicles (and change only
\* their position, velocity and acceleration); every stimulus still present
\* has the size and position it was created with; a vehicle removes at most
\* one food and at most one poison per tick.
C10_TickFrame ==
    Running =>
        /\ Len(vehicles) = Len(spawned.vehicles)
        /\ \A k \in 1..Len(vehicles) :
              [vehicles[k] EXCEPT !.pos = <<0, 0>>, !.vel = <<0, 0>>, !.acc = <<0, 0>>]
                = [spawned.vehicles[k] EXCEPT !.pos = <<0, 0>>, !.vel = <<0, 0>>,
                                              !.acc = <<0, 0>>]
        /\ AsCreated(food, spawned.food)
        /\ AsCreated(poison, spawned.poison)
        /\ ticks >= 1 => \A k \in 1..Len(log) :
              /\ Len(log[k].foodBefore) - Len(log[k].foodAfter) \in {0, 1}
              /\ Len(log[k].poisonBefore) - Len(log[k].poisonAfter) \in {0, 1}

\* A vehicle within contact distance of two foods removed one of them; the
\* other is still there, as it was created.
C10_Witness ==
    /\ Ticked
    /\ Len(log[1].foodBefore) = 2
    /\ InContact(log[1].pre, log[1].foodBefore[1])
    /\ InContact(log[1].pre, log[1].foodBefore[2])
    /\ Len(food) = 1
    /\ food[1] = spawned.food[2]

===========================================================================
